---- MODULE Spec2Model ----
(***************************************************************************)
(* State-machine model of packages/monaco/src/index.ts: the bridge between *)
(* the highlighting engine and the editor's tokenizer contract.            *)
(*                                                                         *)
(* Encoding of JavaScript values                                           *)
(*   - a color string is a sequence of one-character strings;              *)
(*   - an optional value is None (undefined) or Some(v);                   *)
(*   - scope names, theme ids and language ids are TLA+ strings (the code  *)
(*     never looks inside them);                                           *)
(*   - an object with identity (TokenizerState) is an index into heap.     *)
(***************************************************************************)
EXTENDS Integers, Sequences, FiniteSets, TLC

VARIABLES
    \* ---- Spec: the bridge (shikiToMonaco and the tokens provider) ----
    pc,             \* "init" before shikiToMonaco has run, "ready" after
    themeIds,       \* highlighter.getLoadedThemes(), in order
    themeMap,       \* themeMap: theme id -> MonacoTheme
    definedThemes,  \* ids given to monaco.editor.defineTheme
    hostTheme,      \* the theme the host editor shows (_setTheme's effect)
    currentTheme,   \* let currentTheme
    hlTheme,        \* the engine's active theme (highlighter.setTheme)
    providers,      \* languages given to monaco.languages.setTokensProvider
    heap,           \* the objects that exist, by identity
    origin,         \* history: per object, the stack handle it must carry
    lastSel,        \* history: id most recently passed to monaco.editor.setTheme
    ret,            \* what the last call did and returned
    \* ---- SpecColor: normalizeColor applied once and twice ----
    color, once, twice, nstep,
    \* ---- SpecTheme: textmateThemeToMonacoTheme applied to a theme ----
    tmTheme, converted

bridgeVars == <<pc, themeIds, themeMap, definedThemes, hostTheme, currentTheme,
                hlTheme, providers, heap, origin, lastSel, ret>>
colorVars == <<color, once, twice, nstep>>
themeVars == <<tmTheme, converted>>
vars == <<bridgeVars, colorVars, themeVars>>

(***************************************************************************)
(* JavaScript values                                                       *)
(***************************************************************************)
None == [def |-> FALSE]
Some(x) == [def |-> TRUE, v |-> x]

\* !color for a string | undefined: undefined and '' are falsy
FalsyStr(c) == ~c.def \/ c.v = <<>>

\* String.prototype.replace('#', ''): removes the FIRST '#', wherever it is
ReplaceFirstHash(s) ==
    IF \E i \in 1..Len(s) : s[i] = "#"
    THEN LET i == CHOOSE k \in 1..Len(s) :
                      s[k] = "#" /\ \A j \in 1..(k - 1) : s[j] # "#"
         IN SubSeq(s, 1, i - 1) \o SubSeq(s, i + 1, Len(s))
    ELSE s

LowerChar(ch) == IF ch = "F" THEN "f" ELSE IF ch = "A" THEN "a" ELSE ch

\* String.prototype.toLowerCase()
ToLowerCase(s) == IF s = <<>> THEN <<>> ELSE [i \in 1..Len(s) |-> LowerChar(s[i])]

\* color.split('').map(c => c + c).join('')
DoubleChars(s) == IF s = <<>> THEN <<>> ELSE [i \in 1..(2 * Len(s)) |-> s[(i + 1) \div 2]]

\* Faulty variant of normalizeColor: the toLowerCase() call is forgotten.
normalizeColor_noLower(c) ==
    IF FalsyStr(c) THEN c
    ELSE LET s == ReplaceFirstHash(c.v)
         IN Some(IF Len(s) = 3 \/ Len(s) = 4 THEN DoubleChars(s) ELSE s)

\* function normalizeColor(color: string | undefined)
normalizeColor(c) ==
    IF FalsyStr(c) THEN c
    ELSE LET s == ToLowerCase(ReplaceFirstHash(c.v))
         IN Some(IF Len(s) = 3 \/ Len(s) = 4 THEN DoubleChars(s) ELSE s)

(***************************************************************************)
(* textmateThemeToMonacoTheme                                              *)
(*   theme  = [hasRules, rules, settings, tokenColors, colors, type]       *)
(*   entry  = [scope, settings]; settings = None | Some([foreground])      *)
(*   scope  = [kind |-> "undefined"] | [kind |-> "string", v |-> name]     *)
(*          | [kind |-> "array", items |-> <<scope, ...>>]                 *)
(*   rule   = [token, foreground]                                          *)
(***************************************************************************)
UndefScope == [kind |-> "undefined"]
StrScope(n) == [kind |-> "string", v |-> n]
ArrScope(items) == [kind |-> "array", items |-> items]

\* Array.isArray(scope) ? scope : [scope]
ScopesOf(scope) == IF scope.kind = "array" THEN scope.items ELSE <<scope>>

\* truthiness of one scope value s
TruthyScope(s) == s.kind = "string" /\ s.v # ""

\* Faulty variant of RulesOfScopes: the rule is pushed without checking the scope.
RECURSIVE RulesOfScopes_noScopeCheck(_, _, _)
RulesOfScopes_noScopeCheck(scopes, settings, acc) ==
    IF scopes = <<>> THEN [thrown |-> FALSE, rules |-> acc]
    ELSE IF ~settings.def THEN [thrown |-> TRUE, rules |-> acc]
    ELSE LET s == Head(scopes)
         IN RulesOfScopes_noScopeCheck(Tail(scopes), settings,
                IF ~FalsyStr(settings.v.foreground)
                THEN Append(acc, [token |-> IF s.kind = "string" THEN s.v ELSE "",
                                  foreground |-> normalizeColor(settings.v.foreground)])
                ELSE acc)

\* for (const s of scopes) { if (settings.foreground && s) rules.push(...) }
\* settings.foreground is read first: it throws when settings is undefined.
RECURSIVE RulesOfScopes(_, _, _)
RulesOfScopes(scopes, settings, acc) ==
    IF scopes = <<>> THEN [thrown |-> FALSE, rules |-> acc]
    ELSE IF ~settings.def THEN [thrown |-> TRUE, rules |-> acc]
    ELSE LET s == Head(scopes)
         IN RulesOfScopes(Tail(scopes), settings,
                IF ~FalsyStr(settings.v.foreground) /\ TruthyScope(s)
                THEN Append(acc, [token |-> s.v,
                                  foreground |-> normalizeColor(settings.v.foreground)])
                ELSE acc)

\* for (const { scope, settings } of themeSettings) { ... }
RECURSIVE RulesOfSettings(_, _)
RulesOfSettings(themeSettings, acc) ==
    IF themeSettings = <<>> THEN [thrown |-> FALSE, rules |-> acc]
    ELSE LET e == Head(themeSettings)
             r == RulesOfScopes(ScopesOf(e.scope), e.settings, acc)
         IN IF r.thrown THEN r ELSE RulesOfSettings(Tail(themeSettings), r.rules)

\* `#${normalizeColor(value)}`
UndefinedText == <<"u", "n", "d", "e", "f", "i", "n", "e", "d">>
HashTemplate(c) == <<"#">> \o (IF c.def THEN c.v ELSE UndefinedText)

\* Object.fromEntries(Object.entries(theme.colors || {}).map(...))
ConvertColors(colors) ==
    LET es == IF colors.def THEN colors.v ELSE <<>>
    IN IF es = <<>> THEN <<>>
       ELSE [i \in 1..Len(es) |->
                [key |-> es[i].key, value |-> HashTemplate(normalizeColor(es[i].value))]]

Thrown == [thrown |-> TRUE]
Returned(x) == [thrown |-> FALSE, value |-> x]

\* Faulty variant of textmateThemeToMonacoTheme: a pre-resolved rule list is ignored
\* and the rules are always derived from the settings.
textmateThemeToMonacoTheme_ignoreRules(theme) ==
    LET themeSettings == IF theme.settings.def THEN theme.settings ELSE theme.tokenColors
        built == IF ~themeSettings.def THEN [thrown |-> TRUE, rules |-> <<>>]
                 ELSE RulesOfSettings(themeSettings.v, <<>>)
    IN IF built.thrown THEN Thrown
       ELSE Returned([base |-> IF theme.type = "light" THEN "vs" ELSE "vs-dark",
                      inherit |-> FALSE,
                      colors |-> ConvertColors(theme.colors),
                      rules |-> built.rules])

\* export function textmateThemeToMonacoTheme(theme)
textmateThemeToMonacoTheme(theme) ==
    LET rules0 == IF theme.hasRules THEN theme.rules ELSE None
        themeSettings == IF theme.settings.def THEN theme.settings ELSE theme.tokenColors
        built == IF rules0.def THEN [thrown |-> FALSE, rules |-> rules0.v]
                 ELSE IF ~themeSettings.def THEN [thrown |-> TRUE, rules |-> <<>>]
                 ELSE RulesOfSettings(themeSettings.v, <<>>)
    IN IF built.thrown THEN Thrown
       ELSE Returned([base |-> IF theme.type = "light" THEN "vs" ELSE "vs-dark",
                      inherit |-> FALSE,
                      colors |-> ConvertColors(theme.colors),
                      rules |-> built.rules])

(***************************************************************************)
(* The collaborators: the highlighting engine and the host editor           *)
(***************************************************************************)
tokenizeMaxLineLength == 20000

INITIAL == 0
Engine == "highlighter"

MaxStack == 1       \* stack handles are 0..MaxStack
MaxTokens == 2      \* most tokens the interpreter returns for a line
MaxObjects == 3     \* most objects the heap holds
MaxColorLen == 4    \* longest color string given to normalizeColor
MaxEntries == 2     \* most scope-settings entries of a source theme

Range(f) == {f[i] : i \in DOMAIN f}

\* a source theme as highlighter.getTheme returns it (ThemeRegistrationResolved)
LightTheme ==
    [hasRules |-> FALSE, rules |-> None,
     settings |-> Some(<<
        [scope |-> StrScope("comment"),
         settings |-> Some([foreground |-> Some(<<"#", "F", "0", "0">>)])],
        [scope |-> ArrScope(<<StrScope("string"), StrScope("keyword")>>),
         settings |-> Some([foreground |-> Some(<<"f", "0", "0">>)])],
        [scope |-> StrScope("number"),
         settings |-> Some([foreground |-> Some(<<"#", "0", "f", "0">>)])],
        [scope |-> UndefScope,
         settings |-> Some([foreground |-> None])] >>),
     tokenColors |-> None,
     colors |-> Some(<<[key |-> "editor.background", value |-> Some(<<"#", "F", "F", "F">>)]>>),
     type |-> "light"]

\* a source theme that carries a pre-resolved rule list
DarkTheme ==
    [hasRules |-> TRUE,
     rules |-> Some(<<
        [token |-> "e", foreground |-> Some(<<>>)],
        [token |-> "c", foreground |-> None],
        [token |-> "b", foreground |-> Some(<<"F", "0", "0">>)],
        [token |-> "a", foreground |-> Some(<<"f", "f", "0", "0", "0", "0">>)],
        [token |-> "d", foreground |-> Some(<<"#", "0", "0", "f">>)] >>),
     settings |-> Some(<<>>),
     tokenColors |-> None,
     colors |-> None,
     type |-> "dark"]

EngineThemes == {"light", "dark"}

\* highlighter.getTheme(themeId)
getTheme(id) == IF id = "light" THEN LightTheme ELSE DarkTheme

\* highlighter.getLoadedThemes(): what the engine may hold at registration
LoadedThemeLists == {<<>>, <<"dark">>, <<"light", "dark">>, <<"dark", "light">>}

\* highlighter.getLoadedLanguages() and monaco.languages.getLanguages()
LoadedLanguages == {"js", "vue"}
HostLanguages == {"js", "css"}

\* highlighter.setTheme(name).colorMap: the engine's resolved color table,
\* indexed by the foreground id of a token's metadata (index 0 is unused)
ColorMapOf(name) ==
    IF name = Some("light")
    THEN <<None, Some(<<"#", "F", "0", "0">>), Some(<<"#", "0", "0", "F">>)>>
    ELSE IF name = Some("dark")
    THEN <<None, Some(<<"#", "f", "f", "0", "0", "0", "0">>)>>
    ELSE <<>>

\* StackElementMetadata.getForeground(metadata): bits 15..23 of the metadata
getForeground(metadata) == (metadata \div 32768) % 512

\* a metadata word whose foreground id is fg
Metadata(fg) == fg * 32768 + 1

\* what grammar.tokenizeLine2 may return: start-offset/metadata pairs, a
\* stack handle and the early-stop flag
RECURSIVE PairLists(_)
PairLists(n) ==
    IF n = 0 THEN {<<>>}
    ELSE PairLists(n - 1) \cup
         {p \o <<Len(p), Metadata(fg)>> : p \in {q \in PairLists(n - 1) : Len(q) = 2 * (n - 1)},
                                           fg \in 0..2}

InterpResults ==
    [tokens : PairLists(MaxTokens), ruleStack : 0..MaxStack, stoppedEarly : BOOLEAN]

\* the line lengths tried around the ceiling
LineLengths == {0, tokenizeMaxLineLength - 1, tokenizeMaxLineLength,
                tokenizeMaxLineLength + 1}

\* identifiers the host may pass to monaco.editor.setTheme
ThemeArgs == EngineThemes \cup {"ghost"}

(***************************************************************************)
(* TokenizerState                                                          *)
(***************************************************************************)
\* Faulty variant of TokenizerState: the stack handle given to the constructor
\* is dropped and the state starts over from the initial stack.
TokenizerState_dropStack(stack, hl) ==
    [cls |-> "TokenizerState", ruleStack |-> INITIAL, highlighter |-> hl]

\* new TokenizerState(_ruleStack, highlighter)
TokenizerState(stack, hl) == [cls |-> "TokenizerState", ruleStack |-> stack, highlighter |-> hl]

\* the identity of an object of another class implementing IState
ForeignState == 0

\* other instanceof TokenizerState
instanceofTokenizerState(h, o) == o \in DOMAIN h /\ h[o].cls = "TokenizerState"

\* get ruleStack()
ruleStack(h, this) == h[this].ruleStack

\* Faulty variant of equals: structural equality on the stack handle.
equals_byStack(h, this, other) ==
    IF \/ ~other.def
       \/ ~instanceofTokenizerState(h, other.v)
       \/ h[other.v].ruleStack # h[this].ruleStack
    THEN FALSE
    ELSE TRUE

\* public equals(other: IState): boolean
equals(h, this, other) ==
    IF \/ ~other.def
       \/ ~instanceofTokenizerState(h, other.v)
       \/ other.v # this
       \/ h[other.v].ruleStack # h[this].ruleStack
    THEN FALSE
    ELSE TRUE

\* public clone(): the object that clone() constructs
cloneState(h, this) == TokenizerState(h[this].ruleStack, h[this].highlighter)

(***************************************************************************)
(* tokenize: the Scope-Color Index and the token loop                      *)
(***************************************************************************)
EmptyMap == [k \in {} |-> ""]

\* Faulty variant of colorToScopeMap: without the has() test the last rule
\* of a color wins.
RECURSIVE colorToScopeMap_lastWins(_, _)
colorToScopeMap_lastWins(rules, m) ==
    IF rules = <<>> THEN m
    ELSE LET c == normalizeColor(Head(rules).foreground)
         IN colorToScopeMap_lastWins(Tail(rules),
                IF ~FalsyStr(c)
                THEN (c.v :> Head(rules).token) @@ m
                ELSE m)

\* theme.rules.forEach(rule => { const c = normalizeColor(rule.foreground)
\*   if (c && !colorToScopeMap.has(c)) colorToScopeMap.set(c, rule.token) })
RECURSIVE colorToScopeMap(_, _)
colorToScopeMap(rules, m) ==
    IF rules = <<>> THEN m
    ELSE LET c == normalizeColor(Head(rules).foreground)
         IN colorToScopeMap(Tail(rules),
                IF ~FalsyStr(c) /\ c.v \notin DOMAIN m
                THEN m @@ (c.v :> Head(rules).token)
                ELSE m)

\* function findScopeByColor(color) { return colorToScopeMap.get(color) }
findScopeByColor(m, c) == IF c \in DOMAIN m THEN Some(m[c]) ELSE None

\* colorMap[i] || ''
ColorAt(colorMap, i) ==
    IF (i + 1) \in DOMAIN colorMap /\ ~FalsyStr(colorMap[i + 1])
    THEN colorMap[i + 1]
    ELSE Some(<<>>)

\* the body of the token loop for pair j (0-based)
TokenAt(resultTokens, j, colorMap, m) ==
    LET startIndex == resultTokens[2 * j + 1]
        metadata == resultTokens[2 * j + 2]
        c == normalizeColor(ColorAt(colorMap, getForeground(metadata)))
        found == findScopeByColor(m, c.v)
    IN [startIndex |-> startIndex,
        scopes |-> IF found.def /\ found.v # "" THEN found.v ELSE ""]

\* for (let j = 0; j < tokensLength; j++) tokens.push(...)
TokenLoop(resultTokens, colorMap, m) ==
    LET tokensLength == Len(resultTokens) \div 2
    IN IF tokensLength = 0 THEN <<>>
       ELSE [k \in 1..tokensLength |-> TokenAt(resultTokens, k - 1, colorMap, m)]

(***************************************************************************)
(* Spec: the bridge                                                        *)
(***************************************************************************)
NoCall == [op |-> "none"]

\* the bridge before shikiToMonaco has run, for the engine's loaded themes ids
BridgeInit(ids) ==
    /\ pc = "init"
    /\ themeIds = ids
    /\ themeMap = EmptyMap
    /\ definedThemes = {}
    /\ hostTheme = None
    /\ currentTheme = None
    /\ hlTheme = None
    /\ providers = {}
    /\ heap = <<>>
    /\ origin = <<>>
    /\ lastSel = None
    /\ ret = NoCall

ColorIdle == color = None /\ once = None /\ twice = None /\ nstep = 0
ThemeIdle == tmTheme = LightTheme /\ converted = None

Init ==
    /\ \E ids \in LoadedThemeLists : BridgeInit(ids)
    /\ ColorIdle
    /\ ThemeIdle

\* export function shikiToMonaco(highlighter, monaco)
shikiToMonaco ==
    /\ pc = "init"
    /\ ret = NoCall
    /\ LET conv == [id \in Range(themeIds) |-> textmateThemeToMonacoTheme(getTheme(id))]
       IN IF \E id \in Range(themeIds) : conv[id].thrown
          THEN /\ pc' = "failed"
               /\ UNCHANGED <<themeMap, definedThemes, currentTheme, providers>>
          ELSE /\ pc' = "ready"
               /\ themeMap' = [id \in Range(themeIds) |-> conv[id].value]
               /\ definedThemes' = Range(themeIds)
               /\ currentTheme' = IF themeIds = <<>> THEN None ELSE Some(themeIds[1])
               /\ providers' = {lang \in LoadedLanguages : lang \in HostLanguages}
    /\ ret' = [op |-> "shikiToMonaco"]
    /\ UNCHANGED <<themeIds, hostTheme, hlTheme, heap, origin, lastSel, colorVars, themeVars>>

\* Faulty variant of setTheme: the host is told, the identifier is not recorded.
setTheme_noRecord(theme) ==
    /\ pc = "ready"
    /\ ret = NoCall
    /\ hostTheme' = Some(theme)
    /\ lastSel' = Some(theme)
    /\ ret' = [op |-> "setTheme", arg |-> theme, steps |-> <<"_setTheme">>]
    /\ UNCHANGED <<pc, themeIds, themeMap, definedThemes, currentTheme, hlTheme, providers,
                   heap, origin, colorVars, themeVars>>

\* monaco.editor.setTheme = (theme) => { _setTheme(theme); currentTheme = theme }
setTheme(theme) ==
    /\ pc = "ready"
    /\ ret = NoCall
    /\ hostTheme' = Some(theme)
    /\ currentTheme' = Some(theme)
    /\ lastSel' = Some(theme)
    /\ ret' = [op |-> "setTheme", arg |-> theme, steps |-> <<"_setTheme", "currentTheme">>]
    /\ UNCHANGED <<pc, themeIds, themeMap, definedThemes, hlTheme, providers,
                   heap, origin, colorVars, themeVars>>

\* getInitialState() { return new TokenizerState(INITIAL, highlighter) }
getInitialState(lang) ==
    /\ pc = "ready"
    /\ ret = NoCall
    /\ lang \in providers
    /\ Len(heap) < MaxObjects
    /\ heap' = Append(heap, TokenizerState(INITIAL, Engine))
    /\ origin' = Append(origin, INITIAL)
    /\ ret' = [op |-> "getInitialState", new |-> Len(heap) + 1]
    /\ UNCHANGED <<pc, themeIds, themeMap, definedThemes, hostTheme, currentTheme, hlTheme,
                   providers, lastSel, colorVars, themeVars>>

\* themeMap.get(currentTheme)
themeMapGet(name) ==
    IF name.def /\ name.v \in DOMAIN themeMap THEN Some(themeMap[name.v]) ELSE None

\* the first branch of tokenize: line.length >= tokenizeMaxLineLength
TokenizeLong(lang, len, state) ==
    /\ ret' = [op |-> "tokenize", lang |-> lang, len |-> len, state |-> state,
               thrown |-> FALSE, endState |-> state,
               tokens |-> <<[startIndex |-> 0, scopes |-> ""]>>,
               interp |-> 0, stackIn |-> INITIAL, result |-> None, warned |-> FALSE,
               hlBefore |-> hlTheme, themeKey |-> None, theme |-> None]
    /\ UNCHANGED <<hlTheme, heap, origin>>

\* the rest of tokenize: the engine is asked for the theme's color table, the
\* interpreter is run, and the tokens are mapped back to scopes
TokenizeShort(lang, len, state) ==
    \E result \in InterpResults :
    LET colorMap == ColorMapOf(currentTheme)
        theme == themeMapGet(currentTheme)
        call == [op |-> "tokenize", lang |-> lang, len |-> len, state |-> state,
                 interp |-> 1, stackIn |-> ruleStack(heap, state), result |-> Some(result),
                 warned |-> result.stoppedEarly,
                 hlBefore |-> hlTheme, themeKey |-> currentTheme, theme |-> theme]
    IN /\ hlTheme' = currentTheme
       /\ IF ~theme.def
          THEN \* theme!.rules on undefined: TypeError
               /\ ret' = call @@ [thrown |-> TRUE, endState |-> 0, tokens |-> <<>>]
               /\ UNCHANGED <<heap, origin>>
          ELSE /\ Len(heap) < MaxObjects
               /\ heap' = Append(heap, TokenizerState(result.ruleStack, heap[state].highlighter))
               /\ origin' = Append(origin, result.ruleStack)
               /\ ret' = call @@
                     [thrown |-> FALSE, endState |-> Len(heap) + 1,
                      tokens |-> TokenLoop(result.tokens, colorMap,
                                           colorToScopeMap(theme.v.rules, EmptyMap))]

\* Faulty variant of tokenize: the guard compares with > instead of >=.
tokenize_gt(lang, len, state) ==
    /\ pc = "ready"
    /\ ret = NoCall
    /\ lang \in providers
    /\ state \in DOMAIN heap
    /\ heap[state].cls = "TokenizerState"
    /\ IF len > tokenizeMaxLineLength
       THEN TokenizeLong(lang, len, state)
       ELSE TokenizeShort(lang, len, state)
    /\ UNCHANGED <<pc, themeIds, themeMap, definedThemes, hostTheme, currentTheme,
                   providers, lastSel, colorVars, themeVars>>

\* tokenize(line, state: TokenizerState)
tokenize(lang, len, state) ==
    /\ pc = "ready"
    /\ ret = NoCall
    /\ lang \in providers
    /\ state \in DOMAIN heap
    /\ heap[state].cls = "TokenizerState"
    /\ IF len >= tokenizeMaxLineLength
       THEN TokenizeLong(lang, len, state)
       ELSE TokenizeShort(lang, len, state)
    /\ UNCHANGED <<pc, themeIds, themeMap, definedThemes, hostTheme, currentTheme,
                   providers, lastSel, colorVars, themeVars>>

\* state.clone(), called by the host
clone(this) ==
    /\ pc = "ready"
    /\ ret = NoCall
    /\ this \in DOMAIN heap
    /\ heap[this].cls = "TokenizerState"
    /\ Len(heap) < MaxObjects
    /\ heap' = Append(heap, cloneState(heap, this))
    /\ origin' = Append(origin, origin[this])
    /\ ret' = [op |-> "clone", this |-> this, new |-> Len(heap) + 1]
    /\ UNCHANGED <<pc, themeIds, themeMap, definedThemes, hostTheme, currentTheme, hlTheme,
                   providers, lastSel, colorVars, themeVars>>

\* state.equals(other), called by the host
Equals(this, other) ==
    /\ pc = "ready"
    /\ ret = NoCall
    /\ this \in DOMAIN heap
    /\ heap[this].cls = "TokenizerState"
    /\ other.def => other.v \in DOMAIN heap \cup {ForeignState}
    /\ ret' = [op |-> "equals", this |-> this, other |-> other,
               result |-> equals(heap, this, other)]
    /\ UNCHANGED <<pc, themeIds, themeMap, definedThemes, hostTheme, currentTheme, hlTheme,
                   providers, heap, origin, lastSel, colorVars, themeVars>>

\* the host is single-threaded: it takes the result of one call before it
\* makes the next one
TakeResult ==
    /\ ret # NoCall
    /\ ret' = NoCall
    /\ UNCHANGED <<pc, themeIds, themeMap, definedThemes, hostTheme, currentTheme, hlTheme,
                   providers, heap, origin, lastSel, colorVars, themeVars>>

Next ==
    \/ TakeResult
    \/ shikiToMonaco
    \/ \E theme \in ThemeArgs : setTheme(theme)
    \/ \E lang \in LoadedLanguages : getInitialState(lang)
    \/ \E lang \in LoadedLanguages, len \in LineLengths, state \in 1..MaxObjects :
          tokenize(lang, len, state)
    \/ \E this \in 1..MaxObjects : clone(this)
    \/ \E this \in 1..MaxObjects, other \in {None} \cup {Some(o) : o \in 0..MaxObjects} :
          Equals(this, other)

Spec == Init /\ [][Next]_vars

(***************************************************************************)
(* SpecColor: normalizeColor applied to a color, then to its own result    *)
(***************************************************************************)
ColorChars == {"#", "F", "f", "0"}

\* the strings of at most n characters
Strings(n) == UNION {[1..k -> ColorChars] : k \in 0..n}

ColorInputs == {None} \cup {Some(str) : str \in Strings(MaxColorLen)}

InitColor ==
    /\ BridgeInit(<<>>)
    /\ ThemeIdle
    /\ color \in ColorInputs
    /\ once = None /\ twice = None /\ nstep = 0

NormalizeOnce ==
    /\ nstep = 0
    /\ once' = normalizeColor(color)
    /\ nstep' = 1
    /\ UNCHANGED <<color, twice, bridgeVars, themeVars>>

NormalizeTwice ==
    /\ nstep = 1
    /\ twice' = normalizeColor(once)
    /\ nstep' = 2
    /\ UNCHANGED <<color, once, bridgeVars, themeVars>>

NextColor == NormalizeOnce \/ NormalizeTwice

SpecColor == InitColor /\ [][NextColor]_vars

(***************************************************************************)
(* SpecTheme: textmateThemeToMonacoTheme applied to a source theme,        *)
(* well-formed or not                                                      *)
(***************************************************************************)
ScopeInputs ==
    {UndefScope, StrScope("a"), StrScope(""), ArrScope(<<>>),
     ArrScope(<<StrScope("b"), StrScope(""), StrScope("c")>>)}

SettingsInputs ==
    {None, Some([foreground |-> None]), Some([foreground |-> Some(<<>>)]),
     Some([foreground |-> Some(<<"#", "F", "0", "0">>)])}

EntryInputs == [scope : ScopeInputs, settings : SettingsInputs]

\* the lists of at most n entries
EntryLists(n) == UNION {[1..k -> EntryInputs] : k \in 0..n}

RulesInputs ==
    {[hasRules |-> FALSE, rules |-> None],
     [hasRules |-> TRUE, rules |-> None],
     [hasRules |-> TRUE, rules |-> Some(<<>>)],
     [hasRules |-> TRUE,
      rules |-> Some(<<[token |-> "a", foreground |-> Some(<<"F", "0", "0">>)],
                       [token |-> "b", foreground |-> None]>>)]}

ColorTableInputs ==
    {None,
     Some(<<[key |-> "editor.foreground", value |-> Some(<<"#", "F", "F", "F">>)],
            [key |-> "editor.background", value |-> None]>>)}

SourceThemes ==
    {[hasRules |-> r.hasRules, rules |-> r.rules, settings |-> st, tokenColors |-> tc,
      colors |-> c, type |-> ty] :
        r \in RulesInputs,
        st \in {None} \cup {Some(l) : l \in EntryLists(MaxEntries)},
        tc \in {None, Some(<<[scope |-> StrScope("t"),
                              settings |-> Some([foreground |-> Some(<<"0", "f", "0">>)])]>>)},
        c \in ColorTableInputs,
        ty \in {"light", "dark"}}

InitTheme ==
    /\ BridgeInit(<<>>)
    /\ ColorIdle
    /\ tmTheme \in SourceThemes
    /\ converted = None

Convert ==
    /\ ~converted.def
    /\ converted' = Some(textmateThemeToMonacoTheme(tmTheme))
    /\ UNCHANGED <<tmTheme, bridgeVars, colorVars>>

NextTheme == Convert

SpecTheme == InitTheme /\ [][NextTheme]_vars

(***************************************************************************)
(* Properties of normalizeColor (SpecColor)                                *)
(***************************************************************************)
HashCount(str) == Cardinality({i \in 1..Len(str) : str[i] = "#"})

FFF == <<"#", "F", "F", "F">>
ffffff == <<"f", "f", "f", "f", "f", "f">>

\* C7 as stated: normalizeColor(normalizeColor(c)) = normalizeColor(c) for
\* every input c, '#FFF' normalizes like 'ffffff', and absent stays absent.
C7_IdempotentOnEveryInput ==
    /\ nstep = 2 => twice = once
    /\ (nstep >= 1 /\ color = Some(FFF)) => once = normalizeColor(Some(ffffff))
    /\ (nstep >= 1 /\ ~color.def) => ~once.def

\* C7 (amended): for every input c that is absent or holds at most one '#',
\* normalizeColor(normalizeColor(c)) = normalizeColor(c); '#FFF' normalizes to
\* the same result as 'ffffff', namely 'ffffff'; absent normalizes to absent.
C7_IdempotentUpToOneMarker ==
    /\ (nstep = 2 /\ (color.def => HashCount(color.v) <= 1)) => twice = once
    /\ (nstep >= 1 /\ color = Some(FFF)) =>
            /\ once = normalizeColor(Some(ffffff))
            /\ once = Some(ffffff)
    /\ (nstep >= 1 /\ ~color.def) => ~once.def

\* '#FFF' has been normalized twice: both results are 'ffffff'
C7_Witness ==
    /\ nstep = 2
    /\ color = Some(FFF)
    /\ once = Some(ffffff)
    /\ twice = Some(ffffff)

(***************************************************************************)
(* Properties of textmateThemeToMonacoTheme (SpecTheme)                    *)
(***************************************************************************)
\* the scope-settings list the converter reads
SettingsListOf(t) == IF t.settings.def THEN t.settings ELSE t.tokenColors

CarriesRuleList(t) == t.hasRules /\ t.rules.def

\* a theme the converter's parameter type admits: a rule list, or a
\* scope-settings list in which every entry has settings (an entry whose
\* scope is an empty list is never read)
WellFormed(t) ==
    \/ CarriesRuleList(t)
    \/ /\ SettingsListOf(t).def
       /\ \A i \in 1..Len(SettingsListOf(t).v) :
             LET e == SettingsListOf(t).v[i]
             IN ScopesOf(e.scope) # <<>> => e.settings.def

IsHostTheme(h, t) ==
    /\ h.base = (IF t.type = "light" THEN "vs" ELSE "vs-dark")
    /\ h.inherit = FALSE
    /\ Len(h.colors) = (IF t.colors.def THEN Len(t.colors.v) ELSE 0)
    /\ \A i \in 1..Len(h.colors) : Head(h.colors[i].value) = "#"

RECURSIVE ScopePairs(_)
ScopePairs(l) ==
    IF l = <<>> THEN <<>>
    ELSE LET sc == ScopesOf(Head(l).scope)
         IN (IF sc = <<>> THEN <<>>
             ELSE [j \in 1..Len(sc) |-> [scope |-> sc[j], settings |-> Head(l).settings]])
            \o ScopePairs(Tail(l))

HasBoth(p) ==
    /\ p.settings.def
    /\ p.settings.v.foreground.def
    /\ p.settings.v.foreground.v # <<>>
    /\ p.scope.kind = "string"
    /\ p.scope.v # ""

ExpectedRules(l) ==
    LET kept == SelectSeq(ScopePairs(l), HasBoth)
    IN IF kept = <<>> THEN <<>>
       ELSE [i \in 1..Len(kept) |->
                [token |-> kept[i].scope.v,
                 foreground |-> normalizeColor(kept[i].settings.v.foreground)]]

\* C6: when the converter returns, its rules are the theme's rule list
\* verbatim if the theme carries one, and otherwise exactly one rule
\* {token: scope, foreground: normalized color} per (entry, scope) pair that
\* has both a foreground and a non-empty scope, in source order.
C6_RuleTable ==
    (converted.def /\ ~converted.v.thrown) =>
        converted.v.value.rules =
            (IF CarriesRuleList(tmTheme) THEN tmTheme.rules.v
             ELSE ExpectedRules(SettingsListOf(tmTheme).v))

\* a theme without a rule list whose first entry lists three scopes, one of
\* them empty, and whose second entry has one scope: three rules, in order
C6_Witness ==
    /\ converted.def
    /\ ~converted.v.thrown
    /\ ~tmTheme.hasRules
    /\ tmTheme.settings.def
    /\ Len(tmTheme.settings.v) = 2
    /\ tmTheme.settings.v[1].scope = ArrScope(<<StrScope("b"), StrScope(""), StrScope("c")>>)
    /\ tmTheme.settings.v[2].scope = StrScope("a")
    /\ converted.v.value.rules =
         <<[token |-> "b", foreground |-> Some(<<"f", "f", "0", "0", "0", "0">>)],
           [token |-> "c", foreground |-> Some(<<"f", "f", "0", "0", "0", "0">>)],
           [token |-> "a", foreground |-> Some(<<"f", "f", "0", "0", "0", "0">>)]>>

(***************************************************************************)
(* Properties of the bridge (Spec)                                         *)
(***************************************************************************)
\* the identifier most recently passed to monaco.editor.setTheme, or the
\* first loaded theme if it was never called
ExpectedActive ==
    IF lastSel.def THEN lastSel
    ELSE IF themeIds = <<>> THEN None ELSE Some(themeIds[1])

Tokenized == ret.op = "tokenize" /\ ret.len < tokenizeMaxLineLength

\* C1: the active theme is always the identifier most recently passed to
\* monaco.editor.setTheme (the first loaded theme before any call); every
\* tokenize call on a line below the ceiling looks up that identifier's rule
\* table and the scopes it returns are resolved with it; the wrapper calls the
\* host's setTheme before it records the identifier.
C1_ThemeSwitchConsistency ==
    /\ pc = "ready" => currentTheme = ExpectedActive
    /\ Tokenized =>
          /\ ret.themeKey = ExpectedActive
          /\ ret.theme = themeMapGet(ExpectedActive)
          /\ ~ret.thrown =>
                ret.tokens = TokenLoop(ret.result.v.tokens, ColorMapOf(ExpectedActive),
                                 colorToScopeMap(themeMap[ExpectedActive.v].rules, EmptyMap))
    /\ ret.op = "setTheme" =>
          /\ ret.steps = <<"_setTheme", "currentTheme">>
          /\ hostTheme = Some(ret.arg)

\* after a line was tokenized under "light", "dark" was selected and the next
\* line's token is resolved with dark's rule table ("b", where light's table
\* gives "comment")
C1_Witness ==
    /\ Tokenized
    /\ ~ret.thrown
    /\ themeIds = <<"light", "dark">>
    /\ lastSel = Some("dark")
    /\ ret.hlBefore = Some("light")
    /\ ret.result.v.tokens = <<0, Metadata(1)>>
    /\ ret.tokens = <<[startIndex |-> 0, scopes |-> "b"]>>

\* C2: for a line of length >= 20000 tokenize returns the single token
\* {startIndex: 0, scopes: ''} and the very state object it was given, without
\* running the interpreter and without touching the engine's active theme; for
\* a shorter line the interpreter is run exactly once.
C2_LineLengthGuard ==
    ret.op = "tokenize" =>
        IF ret.len >= 20000
        THEN /\ ~ret.thrown
             /\ ret.tokens = <<[startIndex |-> 0, scopes |-> ""]>>
             /\ ret.endState = ret.state
             /\ ret.interp = 0
             /\ hlTheme = ret.hlBefore
        ELSE ret.interp = 1

\* a line of exactly 20000 characters, after another theme was selected than
\* the engine's active one: one token, the same state, the engine untouched
C2_Witness ==
    /\ ret.op = "tokenize"
    /\ ret.len = 20000
    /\ ret.endState = ret.state
    /\ ret.interp = 0
    /\ hlTheme = Some("light")
    /\ currentTheme = Some("dark")

\* C3 as stated: for every line below the ceiling, early stop or not, tokenize
\* returns without failing one token per (start offset, metadata) pair of the
\* interpreter, in the same order and with the same start offsets.
C3_TokenOrderAndEarlyStop ==
    Tokenized =>
        /\ ~ret.thrown
        /\ Len(ret.tokens) * 2 = Len(ret.result.v.tokens)
        /\ \A j \in 1..Len(ret.tokens) :
              ret.tokens[j].startIndex = ret.result.v.tokens[2 * j - 1]

\* the first rule, in rule-list order, whose normalized foreground is c
FirstMatch(rules, c) ==
    LET hits == {i \in 1..Len(rules) : normalizeColor(rules[i].foreground) = Some(c)}
    IN IF c = <<>> \/ hits = {} THEN ""
       ELSE rules[CHOOSE i \in hits : \A k \in hits : i <= k].token

\* the normalized foreground color of the j-th pair of the last call
TokenColor(j) ==
    normalizeColor(ColorAt(ColorMapOf(ret.themeKey),
                           getForeground(ret.result.v.tokens[2 * j]))).v

ExampleRules ==
    <<[token |-> "a", foreground |-> Some(<<"f", "0", "0">>)],
      [token |-> "b", foreground |-> Some(<<"f", "0", "0">>)]>>

\* C4: every scope tokenize emits is the token name of the first rule of the
\* active theme whose normalized foreground equals the token's normalized
\* color, and '' when no rule has that color or the color does not resolve;
\* with rules [{a, f00}, {b, f00}] the normalized 'f00' is looked up as 'a'.
C4_FirstMatchWins ==
    /\ (Tokenized /\ ~ret.thrown) =>
          \A j \in 1..Len(ret.tokens) :
             ret.tokens[j].scopes = FirstMatch(ret.theme.v.rules, TokenColor(j))
    /\ pc = "ready" =>
          findScopeByColor(colorToScopeMap(ExampleRules, EmptyMap),
                           normalizeColor(Some(<<"f", "0", "0">>)).v) = Some("a")

\* under "light", whose rules give one color to comment, string and keyword,
\* a token of that color is "comment" and a token of a color no rule has is ''
C4_Witness ==
    /\ Tokenized
    /\ ~ret.thrown
    /\ ret.themeKey = Some("light")
    /\ ret.result.v.tokens = <<0, Metadata(1), 2, Metadata(2)>>
    /\ ret.tokens = <<[startIndex |-> 0, scopes |-> "comment"],
                      [startIndex |-> 2, scopes |-> ""]>>

\* C8: a.equals(b) is true exactly when b is the very object a (so it has a's
\* stack handle), and false for an absent value, a foreign object and a clone;
\* clone() returns a new object with the same stack handle and engine.
C8_StateEquality ==
    /\ ret.op = "equals" =>
          /\ ret.result <=> ret.other = Some(ret.this)
          /\ ret.result => heap[ret.other.v].ruleStack = heap[ret.this].ruleStack
          /\ (~ret.other.def \/ ret.other = Some(ForeignState)) => ~ret.result
    /\ ret.op = "clone" =>
          /\ ret.new # ret.this
          /\ heap[ret.new].ruleStack = heap[ret.this].ruleStack
          /\ heap[ret.new].highlighter = heap[ret.this].highlighter
          /\ ~equals(heap, ret.this, Some(ret.new))

\* a state compared with another object that has the same stack handle and
\* engine (as its clone has): not equal
C8_Witness ==
    /\ ret.op = "equals"
    /\ ret.other.def
    /\ ret.other.v \in DOMAIN heap
    /\ ret.other.v # ret.this
    /\ heap[ret.other.v] = heap[ret.this]
    /\ heap[ret.this].ruleStack # INITIAL
    /\ ~ret.result

\* C9 as stated: every tokenize call returns a token list and an end state,
\* whatever identifier was selected and whether or not a theme was loaded.
C9_TokenizeNeverFails ==
    ret.op = "tokenize" => ~ret.thrown

\* C10: every state carries, unchanged, the stack handle the interpreter
\* returned for the nearest preceding tokenized line of its chain (INITIAL if
\* there is none) and the one engine; tokenize hands the interpreter exactly
\* the handle of the state it was given.
C10_StateCarryOver ==
    /\ Len(origin) = Len(heap)
    /\ \A o \in DOMAIN heap :
          /\ heap[o].ruleStack = origin[o]
          /\ heap[o].highlighter = Engine
    /\ Tokenized => ret.stackIn = origin[ret.state]
    /\ (Tokenized /\ ~ret.thrown) =>
          /\ ret.endState \notin {ret.state}
          /\ origin[ret.endState] = ret.result.v.ruleStack

\* a chain: from the initial state a line was tokenized (the interpreter
\* returned handle 1), and the next line's interpreter run was given handle 1
\* and returned the initial handle
C10_Witness ==
    /\ Tokenized
    /\ ~ret.thrown
    /\ Len(heap) = 3
    /\ heap[1].ruleStack = INITIAL
    /\ heap[2].ruleStack = 1
    /\ ret.state = 2
    /\ ret.stackIn = 1
    /\ ret.endState = 3
    /\ heap[3].ruleStack = INITIAL

====
